---------------------------- MODULE Spec2Model ----------------------------
(***************************************************************************)
(* A model of spend_analysis.py: the category lookup, the three format    *)
(* normalizers and the driver loop of main().                              *)
(*                                                                         *)
(* Text is a sequence of one-character strings.  A cell of a DataFrame is  *)
(* a record [t, s, n]: a string (t = "str", text s), a number (t = "num", *)
(* value n) or pandas' NaN (t = "nan"), the value read_csv gives a blank   *)
(* field.  Amounts are whole numbers in the model.                         *)
(***************************************************************************)
EXTENDS Integers, Sequences, FiniteSets, TLC

\* ------------------------------------------------------------------ bounds

\* The longest description of the lookup inputs.
MaxDescLen == 3
\* The most rules of a generated rule table.
MaxRules == 2
\* The most data rows of a generated raw table.
MaxRows == 2
\* The most input files of a run.
MaxFiles == 2

\* ------------------------------------------------------------------ text

UpperChars == <<"A","B","C","D","E","F","G","H","I","J","K","L","M",
                "N","O","P","Q","R","S","T","U","V","W","X","Y","Z">>
LowerChars == <<"a","b","c","d","e","f","g","h","i","j","k","l","m",
                "n","o","p","q","r","s","t","u","v","w","x","y","z">>
Digits == <<"0","1","2","3","4","5","6","7","8","9">>

\* re.IGNORECASE: both sides of a character comparison are case-folded.
Fold(c) ==
    IF \E i \in 1..26 : UpperChars[i] = c
    THEN LowerChars[CHOOSE i \in 1..26 : UpperChars[i] = c]
    ELSE c

IsDigit(c) == \E i \in 1..10 : Digits[i] = c
DigitVal(c) == (CHOOSE i \in 1..10 : Digits[i] = c) - 1

RECURSIVE DigitsVal(_)
DigitsVal(s) ==
    IF s = <<>> THEN 0
    ELSE 10 * DigitsVal(SubSeq(s, 1, Len(s) - 1)) + DigitVal(s[Len(s)])

AllDigits(s) == Len(s) > 0 /\ \A k \in 1..Len(s) : IsDigit(s[k])

\* The text of a whole number: an optional "-" and one or more digits.
IsNumeric(s) ==
    /\ Len(s) > 0
    /\ IF s[1] = "-" THEN AllDigits(Tail(s)) ELSE AllDigits(s)

NumValue(s) == IF s[1] = "-" THEN 0 - DigitsVal(Tail(s)) ELSE DigitsVal(s)

\* ------------------------------------------------------------------ cells

Str(s) == [t |-> "str", s |-> s, n |-> 0]
Num(n) == [t |-> "num", s |-> <<>>, n |-> n]
NaN == [t |-> "nan", s |-> <<>>, n |-> 0]

StatusStr == <<"S","t","a","t","u","s">>
TransDateStr == <<"T","r","a","n","s","."," ","D","a","t","e">>
DateStr == <<"D","a","t","e">>
PostDateStr == <<"P","o","s","t"," ","D","a","t","e">>
DescriptionStr == <<"D","e","s","c","r","i","p","t","i","o","n">>
DebitStr == <<"D","e","b","i","t">>
CreditStr == <<"C","r","e","d","i","t">>
MemberNameStr == <<"M","e","m","b","e","r"," ","N","a","m","e">>
AmountStr == <<"A","m","o","u","n","t">>
CategoryStr == <<"C","a","t","e","g","o","r","y">>

\* ------------------------------------------------------------------ regex

\* The patterns considered are literal characters, "." (any character) and
\* "(", which is never closed: re.compile raises re.error on such a pattern.
Compiles(p) == \A k \in 1..Len(p) : p[k] # "("

MatchAtCaseSensitive(p, d, i) ==
    /\ i + Len(p) <= Len(d)
    /\ \A k \in 1..Len(p) : p[k] = "." \/ p[k] = d[i + k]

MatchAt(p, d, i) ==
    /\ i + Len(p) <= Len(d)
    /\ \A k \in 1..Len(p) : p[k] = "." \/ Fold(p[k]) = Fold(d[i + k])

\* re.search: the scan tries every start offset from the left.
RECURSIVE SearchFrom(_, _, _)
SearchFrom(p, d, i) ==
    IF i + Len(p) > Len(d) THEN FALSE
    ELSE IF MatchAt(p, d, i) THEN TRUE
    ELSE SearchFrom(p, d, i + 1)

Search(p, d) == SearchFrom(p, d, 0)

UnknownStr == <<"u","n","k","n","o","w","n">>

\* lookup(description, lookups): description is a cell, rules a sequence of
\* [regex, category].  The result is [err, category].
RECURSIVE LookupFrom(_, _, _)
LookupFrom(description, rules, k) ==
    IF k > Len(rules) THEN [err |-> "none", category |-> UnknownStr]
    ELSE IF ~Compiles(rules[k].regex)
         THEN [err |-> "re.error", category |-> <<>>]
    ELSE IF description.t # "str"
         THEN [err |-> "TypeError", category |-> <<>>]
    ELSE IF Search(rules[k].regex, description.s)
         THEN [err |-> "none", category |-> rules[k].category]
    ELSE LookupFrom(description, rules, k + 1)

lookup(description, rules) == LookupFrom(description, rules, 1)

\* ------------------------------------------------------------------ frames

\* A DataFrame: its column labels (cells) and its rows, each a sequence of
\* cells in the order of the labels.
Frame(columns, data) == [columns |-> columns, data |-> data]
EmptyFrame == Frame(<<>>, <<>>)

Ok(df) == [err |-> "none", df |-> df]
Raise(e) == [err |-> e, df |-> EmptyFrame]

\* pd.read_csv(file, header=None) on a rectangular table of text fields:
\* integer column labels 0, 1, ...; a blank field is NaN; a column whose
\* non-blank fields are all numeric is read as numbers, any other column
\* keeps its text.
ColNumeric(tbl, j) ==
    \A r \in 1..Len(tbl) : tbl[r][j] = <<>> \/ IsNumeric(tbl[r][j])

ReadCell(tbl, r, j) ==
    IF tbl[r][j] = <<>> THEN NaN
    ELSE IF ColNumeric(tbl, j) THEN Num(NumValue(tbl[r][j]))
    ELSE Str(tbl[r][j])

read_csv(tbl) ==
    Frame([j \in 1..Len(tbl[1]) |-> Num(j - 1)],
          [r \in 1..Len(tbl) |-> [j \in 1..Len(tbl[1]) |-> ReadCell(tbl, r, j)]])

HasCol(df, label) == \E j \in 1..Len(df.columns) : df.columns[j] = label
HasCols(df, labels) == \A k \in 1..Len(labels) : HasCol(df, labels[k])
ColIndex(df, label) ==
    CHOOSE j \in 1..Len(df.columns) :
        /\ df.columns[j] = label
        /\ \A i \in 1..(j - 1) : df.columns[i] # label

\* df[label]: the column's values, one per row.
Col(df, label) == [r \in 1..Len(df.data) |-> df.data[r][ColIndex(df, label)]]

\* df[label] = values: replaces the column, or appends it as the last one.
SetCol(df, label, values) ==
    IF HasCol(df, label)
    THEN Frame(df.columns,
               [r \in 1..Len(df.data) |->
                   [df.data[r] EXCEPT ![ColIndex(df, label)] = values[r]]])
    ELSE Frame(Append(df.columns, label),
               [r \in 1..Len(df.data) |-> Append(df.data[r], values[r])])

\* The positions of the columns kept by df.drop(columns=labels).
RECURSIVE KeptFrom(_, _, _)
KeptFrom(df, labels, j) ==
    IF j > Len(df.columns) THEN <<>>
    ELSE IF \E k \in 1..Len(labels) : labels[k] = df.columns[j]
         THEN KeptFrom(df, labels, j + 1)
    ELSE <<j>> \o KeptFrom(df, labels, j + 1)

Project(df, idx) ==
    Frame([k \in 1..Len(idx) |-> df.columns[idx[k]]],
          [r \in 1..Len(df.data) |-> [k \in 1..Len(idx) |-> df.data[r][idx[k]]]])

\* df.drop(columns=labels): KeyError when a label is absent.
DropCols(df, labels) == Project(df, KeptFrom(df, labels, 1))

\* df[labels]: the named columns in the order asked for.
SelectCols(df, labels) ==
    Project(df, [k \in 1..Len(labels) |-> ColIndex(df, labels[k])])

\* df.rename(columns={old: new}): absent labels are left alone.
RenameCol(df, old, new) ==
    Frame([j \in 1..Len(df.columns) |->
              IF df.columns[j] = old THEN new ELSE df.columns[j]],
          df.data)

\* pd.to_numeric on one value: NaN and numbers pass, numeric text is
\* parsed, any other text raises ValueError.
CanNumeric(c) == c.t # "str" \/ IsNumeric(c.s)
ToNumeric(c) == IF c.t = "str" THEN Num(NumValue(c.s)) ELSE c
ColCanNumeric(df, label) ==
    \A r \in 1..Len(df.data) : CanNumeric(Col(df, label)[r])
ColToNumeric(df, label) ==
    SetCol(df, label, [r \in 1..Len(df.data) |-> ToNumeric(Col(df, label)[r])])

\* df.fillna(0, inplace=True): every NaN of every column becomes 0.
FillNa(df) ==
    Frame(df.columns,
          [r \in 1..Len(df.data) |->
              [j \in 1..Len(df.columns) |->
                  IF df.data[r][j].t = "nan" THEN Num(0) ELSE df.data[r][j]]])

\* df.columns = df.iloc[0]; df = df[1:]
HeaderFromFirstRow(dataframe) == Frame(dataframe.data[1], Tail(dataframe.data))

\* df["Amount"] = df["Credit"] + df["Debit"]
\* A sum with NaN is NaN.
Plus(a, b) == IF a.t = "num" /\ b.t = "num" THEN Num(a.n + b.n) ELSE NaN
Minus(a, b) == IF a.t = "num" /\ b.t = "num" THEN Num(a.n - b.n) ELSE NaN

AddAmountDifference(df) ==
    SetCol(df, Str(AmountStr),
           [r \in 1..Len(df.data) |->
               Minus(Col(df, Str(CreditStr))[r], Col(df, Str(DebitStr))[r])])

AddAmount(df) ==
    SetCol(df, Str(AmountStr),
           [r \in 1..Len(df.data) |->
               Plus(Col(df, Str(CreditStr))[r], Col(df, Str(DebitStr))[r])])

CitiDropped == <<Str(StatusStr), Str(MemberNameStr), Str(DebitStr), Str(CreditStr)>>
CitiOrder == <<Str(DateStr), Str(AmountStr), Str(DescriptionStr)>>

normalize_citi(dataframe) ==
    LET df1 == HeaderFromFirstRow(dataframe) IN
    IF ~HasCol(df1, Str(DebitStr)) THEN Raise("KeyError")
    ELSE IF ~ColCanNumeric(df1, Str(DebitStr)) THEN Raise("ValueError")
    ELSE LET df2 == ColToNumeric(df1, Str(DebitStr)) IN
    IF ~HasCol(df2, Str(CreditStr)) THEN Raise("KeyError")
    ELSE IF ~ColCanNumeric(df2, Str(CreditStr)) THEN Raise("ValueError")
    ELSE LET df3 == AddAmount(FillNa(ColToNumeric(df2, Str(CreditStr)))) IN
    IF ~HasCols(df3, CitiDropped) THEN Raise("KeyError")
    ELSE LET df4 == DropCols(df3, CitiDropped) IN
    IF ~HasCols(df4, CitiOrder) THEN Raise("KeyError")
    ELSE Ok(SelectCols(df4, CitiOrder))

DiscoverDropped == <<Str(PostDateStr), Str(CategoryStr)>>
DiscoverOrder == <<Str(DateStr), Str(DescriptionStr), Str(AmountStr)>>

normalize_discover(dataframe) ==
    LET df1 == HeaderFromFirstRow(dataframe) IN
    IF ~HasCols(df1, DiscoverDropped) THEN Raise("KeyError")
    ELSE LET df2 == RenameCol(DropCols(df1, DiscoverDropped),
                              Str(TransDateStr), Str(DateStr)) IN
    IF ~HasCols(df2, DiscoverOrder) THEN Raise("KeyError")
    ELSE LET df3 == SelectCols(df2, DiscoverOrder) IN
    IF ~ColCanNumeric(df3, Str(AmountStr)) THEN Raise("ValueError")
    ELSE Ok(ColToNumeric(df3, Str(AmountStr)))

WellsFargoDropped == <<Num(2), Num(3)>>
WellsFargoNames == <<Str(DateStr), Str(AmountStr), Str(DescriptionStr)>>

\* df.columns = [3 names] raises ValueError unless three columns are left.
normalize_wellsfargo(dataframe) ==
    IF ~HasCols(dataframe, WellsFargoDropped) THEN Raise("KeyError")
    ELSE LET df1 == DropCols(dataframe, WellsFargoDropped) IN
    IF Len(df1.columns) # Len(WellsFargoNames) THEN Raise("ValueError")
    ELSE Ok(Frame(WellsFargoNames, df1.data))

\* ------------------------------------------------------------------ dates

Slashes(s) == {k \in 1..Len(s) : s[k] = "/"}
Lowest(S) == CHOOSE k \in S : \A j \in S : k <= j
Highest(S) == CHOOSE k \in S : \A j \in S : k >= j

IsLeap(y) == (y % 4 = 0 /\ y % 100 # 0) \/ y % 400 = 0
DaysInMonth(m, y) ==
    IF m = 2 THEN (IF IsLeap(y) THEN 29 ELSE 28)
    ELSE IF m \in {4, 6, 9, 11} THEN 30 ELSE 31

\* %m: 1[0-2] | 0[1-9] | [1-9]
MonthText(t) == AllDigits(t) /\ Len(t) <= 2 /\ DigitsVal(t) \in 1..12
\* %d: 3[01] | [12]\d | 0[1-9] | [1-9] | " "[1-9]
DayText(t) ==
    \/ AllDigits(t) /\ Len(t) <= 2 /\ DigitsVal(t) \in 1..31
    \/ Len(t) = 2 /\ t[1] = " " /\ IsDigit(t[2]) /\ DigitVal(t[2]) >= 1
DayValue(t) == IF t[1] = " " THEN DigitVal(t[2]) ELSE DigitsVal(t)
\* %Y: \d\d\d\d
YearText(t) == Len(t) = 4 /\ AllDigits(t)

\* datetime.strptime(s, "%m/%d/%Y") on a string: TRUE when it returns, FALSE
\* when it raises ValueError (the text does not match the format, text is
\* left over, or the day does not exist in that month).
StrptimeOk(s) ==
    /\ Cardinality(Slashes(s)) = 2
    /\ LET p1 == Lowest(Slashes(s))
           p2 == Highest(Slashes(s))
           m == SubSeq(s, 1, p1 - 1)
           d == SubSeq(s, p1 + 1, p2 - 1)
           y == SubSeq(s, p2 + 1, Len(s))
       IN /\ MonthText(m) /\ DayText(d) /\ YearText(y)
          /\ DigitsVal(y) >= 1
          /\ DayValue(d) <= DaysInMonth(DigitsVal(m), DigitsVal(y))

\* ------------------------------------------------------------------ concat

RECURSIVE UnionLabels(_, _)
UnionLabels(seen, labels) ==
    IF labels = <<>> THEN seen
    ELSE IF \E j \in 1..Len(seen) : seen[j] = Head(labels)
         THEN UnionLabels(seen, Tail(labels))
    ELSE UnionLabels(Append(seen, Head(labels)), Tail(labels))

\* The columns of pd.concat(frames): the labels in order of first
\* appearance, so the first frame's order comes first.
RECURSIVE ConcatColumns(_, _)
ConcatColumns(seen, frames) ==
    IF frames = <<>> THEN seen
    ELSE ConcatColumns(UnionLabels(seen, Head(frames).columns), Tail(frames))

\* A frame's rows realigned to the given labels; a missing column is NaN.
Reindex(df, labels) ==
    [r \in 1..Len(df.data) |->
        [k \in 1..Len(labels) |->
            IF HasCol(df, labels[k])
            THEN df.data[r][ColIndex(df, labels[k])]
            ELSE NaN]]

RECURSIVE ConcatRowsReversed(_, _)
ConcatRowsReversed(frames, labels) ==
    IF frames = <<>> THEN <<>>
    ELSE ConcatRowsReversed(Tail(frames), labels) \o Reindex(Head(frames), labels)

RECURSIVE ConcatRows(_, _)
ConcatRows(frames, labels) ==
    IF frames = <<>> THEN <<>>
    ELSE Reindex(Head(frames), labels) \o ConcatRows(Tail(frames), labels)

\* pd.concat(frames) of a non-empty list.
concat(frames) ==
    Frame(ConcatColumns(<<>>, frames),
          ConcatRows(frames, ConcatColumns(<<>>, frames)))

\* result["Description"].apply(lambda x: lookup(x, lookup_df)): the lookups
\* row by row; the first one that raises ends the apply.
Lookups(df, rules) ==
    [r \in 1..Len(df.data) |-> lookup(Col(df, Str(DescriptionStr))[r], rules)]

ApplyError(df, rules) ==
    IF \A r \in 1..Len(df.data) : Lookups(df, rules)[r].err = "none"
    THEN "none"
    ELSE Lookups(df, rules)[
             Lowest({r \in 1..Len(df.data) : Lookups(df, rules)[r].err # "none"})].err

Categorized(df, rules) ==
    SetCol(df, Str(CategoryStr),
           [r \in 1..Len(df.data) |-> Str(Lookups(df, rules)[r].category)])

\* ------------------------------------------------------------------ inputs

Date1 == <<"0","1","/","2","8","/","2","0","2","3">>
Date2 == <<"1","2","/","0","5","/","2","0","2","2">>
PetDesc == <<"P","E","T"," ","H","O","S","P","I","T","A","L">>
AldiDesc == <<"A","L","D","I"," ","7","2","0","8","3">>
DepotDesc == <<"H","O","M","E"," ","D","E","P","O","T">>
Cleared == <<"C","l","e","a","r","e","d">>
Member == <<"B","O","B">>
Star == <<"*">>
Blank == <<>>

CitiHeader ==
    <<StatusStr, DateStr, DescriptionStr, DebitStr, CreditStr, MemberNameStr>>
DiscoverHeader ==
    <<TransDateStr, PostDateStr, DescriptionStr, AmountStr, CategoryStr>>

\* The rule file spend_analysis.csv: absent, or a table of rules in file order.
Rule(regex, category) == [regex |-> regex, category |-> category]
RuleAldi == Rule(<<"a","l","d","i">>, <<"f","o","o","d">>)
RulePet == Rule(<<"P","e","t"," ","H">>, <<"p","e","t","s">>)
RuleAny == Rule(<<".">>, <<"m","i","s","c">>)
RuleBad == Rule(<<"(">>, <<"b","a","d">>)

RuleFiles ==
    { [exists |-> FALSE, rules |-> <<>>],
      [exists |-> TRUE, rules |-> <<>>],
      [exists |-> TRUE, rules |-> <<RuleAldi, RulePet>>],
      [exists |-> TRUE, rules |-> <<RulePet, RuleAny>>],
      [exists |-> TRUE, rules |-> <<RuleAny, RuleBad>>],
      [exists |-> TRUE, rules |-> <<RuleAldi, RuleBad>>] }

\* The input files of a run: a name and the text fields of each line.  Every
\* file has at least one line, its lines have the same number of fields and
\* the labels of a header row are distinct.
File(name, table) == [name |-> name, table |-> table]

CitiFile ==
    File("citi.csv",
         << CitiHeader,
            <<Cleared, Date1, PetDesc, <<"1","4">>, Blank, Member>>,
            <<Cleared, Date2, DepotDesc, Blank, <<"-","7">>, Member>> >>)
DiscoverFile ==
    File("discover.csv",
         << DiscoverHeader,
            <<Date2, Date2, DepotDesc, <<"2","7">>, <<"H","o","m","e">>>>,
            <<Date1, Date1, AldiDesc, <<"3","5">>, <<"f","o","o","d">>>> >>)
WellsFargoFile ==
    File("wellsfargo.csv",
         << <<Date1, <<"-","7">>, Star, Blank, AldiDesc>>,
            <<Date2, <<"-","2","0","6">>, Star, Blank, PetDesc>> >>)
\* A first cell that is no header and no date.
UnknownFile ==
    File("unknown.csv", << <<<<"?","?","?">>, <<"x">>, <<"y">>>> >>)
\* A first column read as numbers: df[0][0] is not a string.
NumericFile ==
    File("numeric.csv", << <<<<"1","2","3">>, <<"x">>, <<"y">>>> >>)
\* Format A with text in a Debit field.
CitiBadDebitFile ==
    File("citi_bad.csv",
         << CitiHeader, <<Cleared, Date1, PetDesc, <<"x">>, Blank, Member>> >>)
\* Format A with a blank Description field.
CitiBlankDescFile ==
    File("citi_blank.csv",
         << CitiHeader, <<Cleared, Date1, Blank, <<"1","4">>, Blank, Member>> >>)
\* Format B without its Category column.
DiscoverShortFile ==
    File("discover_short.csv",
         << <<TransDateStr, PostDateStr, DescriptionStr, AmountStr>>,
            <<Date2, Date2, DepotDesc, <<"2","7">>>> >>)
\* A date in the first cell and six columns.
WellsFargoWideFile ==
    File("wellsfargo_wide.csv",
         << <<Date1, <<"-","7">>, Star, Blank, AldiDesc, <<"x">>>> >>)
\* A date in the first cell and three columns.
WellsFargoShortFile ==
    File("wellsfargo_short.csv", << <<Date1, <<"-","7">>, AldiDesc>> >>)

\* A first cell shaped like a date that names no day of the calendar.
NoSuchDayFile ==
    File("no_such_day.csv",
         << <<<<"0","2","/","3","0","/","2","0","2","3">>, <<"-","7">>, Star, Blank, AldiDesc>> >>)
\* Format A with its header row alone.
CitiHeaderOnlyFile == File("citi_empty.csv", <<CitiHeader>>)

FileCatalog ==
    { CitiFile, DiscoverFile, WellsFargoFile, UnknownFile, NumericFile,
      CitiBadDebitFile, CitiBlankDescFile, DiscoverShortFile,
      WellsFargoWideFile, WellsFargoShortFile, NoSuchDayFile,
      CitiHeaderOnlyFile }

SeqsUpTo(S, n) == UNION {[1..k -> S] : k \in 0..n}

\* The content of out.csv before the run.
OldOutput == Frame(<<Str(<<"o","l","d">>)>>, <<>>)

\* ------------------------------------------------------------------ state

VARIABLES
    rule_file,              \* spend_analysis.csv
    files,                  \* args.files, in command-line order
    out_csv,                \* out.csv: the number of writes and the content
    pc,                     \* the position of main()
    lookup_df,              \* the rule table main() loaded
    nread,                  \* the files the loop has read so far
    transaction_dataframes, \* the accumulator of normalized frames
    result,                 \* the concatenated, then categorized frame
    stdout,                 \* the names printed by the "Unknown format" line
    error,                  \* the exception that ended the run, or "none"
    description,            \* lookup's arguments and its return value
    lookups,
    category,
    raw,                    \* a normalizer's raw table, the frame read from
    dataframe,              \* it and the normalizer's return value
    normalized

mainVars ==
    <<rule_file, files, out_csv, pc, lookup_df, nread,
      transaction_dataframes, result, stdout, error>>
lookupVars == <<description, lookups, category>>
normVars == <<raw, dataframe, normalized>>
vars == <<mainVars, lookupVars, normVars>>

NoCall == [err |-> "not called", category |-> <<>>]
NoFrame == [err |-> "not called", df |-> EmptyFrame]

LookupIdle ==
    /\ description = NaN
    /\ lookups = <<>>
    /\ category = NoCall

NormIdle ==
    /\ raw = [format |-> "none", table |-> <<>>]
    /\ dataframe = EmptyFrame
    /\ normalized = NoFrame

MainIdle ==
    /\ rule_file = [exists |-> FALSE, rules |-> <<>>]
    /\ files = <<>>
    /\ out_csv = [writes |-> 0, df |-> OldOutput]
    /\ pc = "idle"
    /\ lookup_df = <<>>
    /\ nread = 0
    /\ transaction_dataframes = <<>>
    /\ result = EmptyFrame
    /\ stdout = <<>>
    /\ error = "none"

\* ------------------------------------------------------------------ main()

Init ==
    /\ rule_file \in RuleFiles
    /\ files \in SeqsUpTo(FileCatalog, MaxFiles) \ {<<>>}
    /\ out_csv = [writes |-> 0, df |-> OldOutput]
    /\ pc = "read_rules"
    /\ lookup_df = <<>>
    /\ nread = 0
    /\ transaction_dataframes = <<>>
    /\ result = EmptyFrame
    /\ stdout = <<>>
    /\ error = "none"
    /\ LookupIdle
    /\ NormIdle

Crash(e) ==
    /\ pc' = "crashed"
    /\ error' = e

\* lookup_df = pd.read_csv("spend_analysis.csv")
ReadRules ==
    /\ pc = "read_rules"
    /\ IF rule_file.exists
       THEN /\ lookup_df' = rule_file.rules
            /\ pc' = "parse_args"
            /\ UNCHANGED error
       ELSE /\ Crash("FileNotFoundError")
            /\ UNCHANGED lookup_df
    /\ UNCHANGED <<rule_file, files, out_csv, nread, transaction_dataframes,
                   result, stdout>>
    /\ UNCHANGED <<lookupVars, normVars>>

\* parser.parse_args(); transaction_dataframes = []
ParseArgs ==
    /\ pc = "parse_args"
    /\ transaction_dataframes' = <<>>
    /\ pc' = "loop"
    /\ UNCHANGED <<rule_file, files, out_csv, lookup_df, nread, result,
                   stdout, error>>
    /\ UNCHANGED <<lookupVars, normVars>>

\* The frame of the file the loop is at, and its first cell df[0][0].
CurrentFrame == read_csv(files[nread + 1].table)
FirstCell(df) == df.data[1][ColIndex(df, Num(0))]

\* What one pass of the loop body does with a frame: "append" the frame
\* df, "print" the file's name, or "raise" the exception err.
Appends(df) == [do |-> "append", df |-> df, err |-> "none"]
Prints == [do |-> "print", df |-> EmptyFrame, err |-> "none"]
Raises(e) == [do |-> "raise", df |-> EmptyFrame, err |-> e]

Normalized(r) == IF r.err = "none" THEN Appends(r.df) ELSE Raises(r.err)

\* The else branch: strptime and normalize_wellsfargo inside try, with
\* except ValueError around both.
TryWellsFargo(df) ==
    IF FirstCell(df).t # "str" THEN Raises("TypeError")
    ELSE IF ~StrptimeOk(FirstCell(df).s) THEN Prints
    ELSE IF normalize_wellsfargo(df).err = "ValueError" THEN Prints
    ELSE Normalized(normalize_wellsfargo(df))

LoopBody(df) ==
    IF FirstCell(df) = Str(StatusStr) THEN Normalized(normalize_citi(df))
    ELSE IF FirstCell(df) = Str(TransDateStr)
         THEN Normalized(normalize_discover(df))
    ELSE TryWellsFargo(df)

\* One pass of "for file in args.files".
ProcessFile ==
    /\ pc = "loop"
    /\ nread < Len(files)
    /\ nread' = nread + 1
    /\ LET step == LoopBody(CurrentFrame) IN
       /\ transaction_dataframes' =
              IF step.do = "append"
              THEN Append(transaction_dataframes, step.df)
              ELSE transaction_dataframes
       /\ stdout' =
              IF step.do = "print"
              THEN Append(stdout, files[nread + 1].name)
              ELSE stdout
       /\ IF step.do = "raise"
          THEN Crash(step.err)
          ELSE UNCHANGED <<pc, error>>
    /\ UNCHANGED <<rule_file, files, out_csv, lookup_df, result>>
    /\ UNCHANGED <<lookupVars, normVars>>

\* result = pd.concat(transaction_dataframes)
Concat ==
    /\ pc = "loop"
    /\ nread = Len(files)
    /\ IF transaction_dataframes = <<>>
       THEN /\ Crash("ValueError")
            /\ UNCHANGED result
       ELSE /\ result' = concat(transaction_dataframes)
            /\ pc' = "categorize"
            /\ UNCHANGED error
    /\ UNCHANGED <<rule_file, files, out_csv, lookup_df, nread,
                   transaction_dataframes, stdout>>
    /\ UNCHANGED <<lookupVars, normVars>>

\* result["Category"] = result["Description"].apply(...)
Categorize ==
    /\ pc = "categorize"
    /\ IF ApplyError(result, lookup_df) = "none"
       THEN /\ result' = Categorized(result, lookup_df)
            /\ pc' = "to_csv"
            /\ UNCHANGED error
       ELSE /\ Crash(ApplyError(result, lookup_df))
            /\ UNCHANGED result
    /\ UNCHANGED <<rule_file, files, out_csv, lookup_df, nread,
                   transaction_dataframes, stdout>>
    /\ UNCHANGED <<lookupVars, normVars>>

ToCsvUncategorized ==
    /\ pc = "categorize"
    /\ out_csv' = [writes |-> out_csv.writes + 1, df |-> result]
    /\ pc' = "done"
    /\ UNCHANGED <<rule_file, files, lookup_df, nread,
                   transaction_dataframes, result, stdout, error>>
    /\ UNCHANGED <<lookupVars, normVars>>

\* result.to_csv("out.csv", index=False)
ToCsv ==
    /\ pc = "to_csv"
    /\ out_csv' = [writes |-> out_csv.writes + 1, df |-> result]
    /\ pc' = "done"
    /\ UNCHANGED <<rule_file, files, lookup_df, nread,
                   transaction_dataframes, result, stdout, error>>
    /\ UNCHANGED <<lookupVars, normVars>>

Next ==
    \/ ReadRules
    \/ ParseArgs
    \/ ProcessFile
    \/ Concat
    \/ Categorize
    \/ ToCsv

Spec == Init /\ [][Next]_vars

\* ------------------------------------------------------------------ lookup()

DescChars == {"a", "B", "c"}
Descriptions == SeqsUpTo(DescChars, MaxDescLen)
Patterns == { <<"a">>, <<"b">>, <<"A","b">>, <<".","c">>, <<"(">> }
CategoryNames ==
    << <<"f","o","o","d">>, <<"p","e","t","s">>, <<"f","u","e","l">>,
       <<"m","i","s","c">> >>

\* A rule table: patterns in file order, the k-th rule labelled with the
\* k-th category name.
RuleTable(ps) == [k \in 1..Len(ps) |-> Rule(ps[k], CategoryNames[k])]
RuleTables == {RuleTable(ps) : ps \in SeqsUpTo(Patterns, MaxRules)}

InitLookup ==
    /\ description \in {Str(d) : d \in Descriptions}
    /\ lookups \in RuleTables
    /\ category = NoCall
    /\ MainIdle
    /\ NormIdle

CallLookup ==
    /\ category = NoCall
    /\ category' = lookup(description, lookups)
    /\ UNCHANGED <<description, lookups, mainVars, normVars>>

NextLookup == CallLookup

SpecLookup == InitLookup /\ [][NextLookup]_vars

\* ------------------------------------------------------------------ normalizers

Amount14 == <<"1","4">>
AmountMinus7 == <<"-","7">>
Amount206 == <<"2","0","6">>
NotANumber == <<"x">>
Home == <<"H","o","m","e">>

CitiRows ==
    { <<Cleared, Date1, desc, debit, credit, Member>> :
        desc \in {PetDesc, Blank},
        debit \in {Amount14, Blank, NotANumber},
        credit \in {AmountMinus7, Blank} }
DiscoverRows ==
    { <<Date2, Date1, desc, amount, Home>> :
        desc \in {DepotDesc, Blank},
        amount \in {Amount14, AmountMinus7, Blank, NotANumber} }
WellsFargoRows ==
    { <<Date1, amount, Star, Blank, desc>> :
        amount \in {AmountMinus7, Amount206, Blank},
        desc \in {AldiDesc, Blank} }

RawTable(format, table) == [format |-> format, table |-> table]
RawTables ==
    {RawTable("citi", <<CitiHeader>> \o rows) :
        rows \in SeqsUpTo(CitiRows, MaxRows)}
    \cup {RawTable("discover", <<DiscoverHeader>> \o rows) :
        rows \in SeqsUpTo(DiscoverRows, MaxRows)}
    \cup {RawTable("wellsfargo", rows) :
        rows \in SeqsUpTo(WellsFargoRows, MaxRows) \ {<<>>}}

InitNorm ==
    /\ raw \in RawTables
    /\ dataframe = EmptyFrame
    /\ normalized = NoFrame
    /\ MainIdle
    /\ LookupIdle

\* df = pd.read_csv(file, header=None)
ReadCsv ==
    /\ dataframe = EmptyFrame
    /\ dataframe' = read_csv(raw.table)
    /\ UNCHANGED <<raw, normalized, mainVars, lookupVars>>

NormalizeCiti ==
    /\ raw.format = "citi"
    /\ dataframe # EmptyFrame
    /\ normalized = NoFrame
    /\ normalized' = normalize_citi(dataframe)
    /\ UNCHANGED <<raw, dataframe, mainVars, lookupVars>>

NormalizeDiscover ==
    /\ raw.format = "discover"
    /\ dataframe # EmptyFrame
    /\ normalized = NoFrame
    /\ normalized' = normalize_discover(dataframe)
    /\ UNCHANGED <<raw, dataframe, mainVars, lookupVars>>

NormalizeWellsFargo ==
    /\ raw.format = "wellsfargo"
    /\ dataframe # EmptyFrame
    /\ normalized = NoFrame
    /\ normalized' = normalize_wellsfargo(dataframe)
    /\ UNCHANGED <<raw, dataframe, mainVars, lookupVars>>

NextNorm ==
    \/ ReadCsv
    \/ NormalizeCiti
    \/ NormalizeDiscover
    \/ NormalizeWellsFargo

SpecNorm == InitNorm /\ [][NextNorm]_vars

\* ------------------------------------------------------------------ claims

\* Two characters that are equal or the two cases of one letter.
SameLetter(a, b) ==
    a = b \/ \E i \in 1..26 : {a, b} = {UpperChars[i], LowerChars[i]}

\* The pattern occurs somewhere in the text, case ignored.
Found(p, d) ==
    \E i \in 0..(Len(d) - Len(p)) :
        \A k \in 1..Len(p) : p[k] = "." \/ SameLetter(p[k], d[i + k])

Hits == {k \in 1..Len(lookups) : Found(lookups[k].regex, description.s)}

\* C1: when lookup returns, it returns the category of the first rule, in
\* definition order, whose pattern is found in the description by a
\* case-insensitive unanchored search, and "unknown" exactly when no rule's
\* pattern is found; it raises only on a malformed pattern that no earlier
\* matching rule precedes.
C1_LookupFirstMatch ==
    /\ category.err = "none" =>
          /\ (Hits = {}) <=> (category.category = UnknownStr)
          /\ Hits # {} => category.category = lookups[Lowest(Hits)].category
    /\ category.err \notin {"none", "not called"} =>
          \E k \in 1..Len(lookups) :
              /\ ~Compiles(lookups[k].regex)
              /\ \A j \in Hits : j > k

\* Two rules match, the first only by ignoring case, and the first one wins.
C1_Witness ==
    /\ category.err = "none"
    /\ Hits = {1, 2}
    /\ lookups[1].regex = <<"b">>
    /\ category.category = lookups[1].category

\* The number a Debit, Credit or Amount field stands for; blank counts as 0.
FieldValue(t) ==
    CASE t = Amount14 -> 14
      [] t = AmountMinus7 -> 0 - 7
      [] t = Amount206 -> 206
      [] t = Blank -> 0

DataRows ==
    IF raw.format = "wellsfargo" THEN raw.table ELSE Tail(raw.table)

\* C6: normalize_citi drops the header row and gives each data row the
\* Amount Credit + Debit, a blank Debit or Credit counting as 0; it returns
\* unless a Debit or Credit field is text that is no number.
C6_CitiAmount ==
    (raw.format = "citi" /\ normalized.err # "not called") =>
        /\ normalized.err = "none" <=>
               \A r \in 1..Len(DataRows) : DataRows[r][4] # NotANumber
        /\ normalized.err = "none" =>
               /\ Len(normalized.df.data) = Len(raw.table) - 1
               /\ \A r \in 1..Len(DataRows) :
                      Col(normalized.df, Str(AmountStr))[r] =
                          Num(FieldValue(DataRows[r][5]) + FieldValue(DataRows[r][4]))

\* A debit-only row, then a row with both a debit and a credit.
C6_Witness ==
    /\ raw.format = "citi"
    /\ normalized.err = "none"
    /\ Len(DataRows) = 2
    /\ DataRows[1][4] = Amount14 /\ DataRows[1][5] = Blank
    /\ DataRows[2][4] = Amount14 /\ DataRows[2][5] = AmountMinus7
    /\ Col(normalized.df, Str(AmountStr)) = <<Num(14), Num(7)>>

\* The cell read_csv gives a text field of a text column.
TextCell(t) == IF t = Blank THEN NaN ELSE Str(t)
NumberCell(t) == IF t = Blank THEN NaN ELSE Num(FieldValue(t))

DatePos == IF raw.format = "citi" THEN 2 ELSE 1
DescriptionPos == IF raw.format = "wellsfargo" THEN 5 ELSE 3
AmountPos == IF raw.format = "wellsfargo" THEN 2 ELSE 4

\* C7: a normalizer that returns gives one record per data row, in row
\* order, with the row's date and description cells unchanged, for Formats
\* B and C the numeric value of the row's amount cell, and no other column.
C7_RowProjection ==
    normalized.err = "none" =>
        /\ Len(normalized.df.data) = Len(DataRows)
        /\ {normalized.df.columns[j] : j \in 1..Len(normalized.df.columns)} =
               {Str(DateStr), Str(AmountStr), Str(DescriptionStr)}
        /\ Len(normalized.df.columns) = 3
        /\ \A r \in 1..Len(DataRows) :
               /\ Col(normalized.df, Str(DateStr))[r] =
                      TextCell(DataRows[r][DatePos])
               /\ Col(normalized.df, Str(DescriptionStr))[r] =
                      TextCell(DataRows[r][DescriptionPos])
               /\ raw.format # "citi" =>
                      Col(normalized.df, Str(AmountStr))[r] =
                          NumberCell(DataRows[r][AmountPos])

\* The format the first cell of a frame stands for.
Class(df) ==
    IF FirstCell(df) = Str(StatusStr) THEN "A"
    ELSE IF FirstCell(df) = Str(TransDateStr) THEN "B"
    ELSE IF FirstCell(df).t = "str" /\ StrptimeOk(FirstCell(df).s) THEN "C"
    ELSE "unrecognized"

NormalizerOf(df) ==
    CASE Class(df) = "A" -> normalize_citi(df)
      [] Class(df) = "B" -> normalize_discover(df)
      [] Class(df) = "C" -> normalize_wellsfargo(df)

\* The loop passes over the file it is at.
LoopStep == pc = "loop" /\ nread' = nread + 1

\* The step skips the file: its name is printed, nothing is appended and
\* the loop goes on.
Skipped ==
    /\ stdout' = Append(stdout, files[nread + 1].name)
    /\ transaction_dataframes' = transaction_dataframes
    /\ pc' = "loop"

\* The step shows the result of the normalizer call r: the frame appended,
\* or the failure of the call.
Ran(r) ==
    IF r.err = "none"
    THEN /\ transaction_dataframes' = Append(transaction_dataframes, r.df)
         /\ stdout' = stdout
         /\ pc' = "loop"
    ELSE /\ transaction_dataframes' = transaction_dataframes
         /\ \/ pc' = "crashed" /\ error' = r.err
            \/ Skipped

\* C2: every pass of the loop has exactly the outcome the first cell
\* selects: "Status" runs normalize_citi, else "Trans. Date" runs
\* normalize_discover, else an MM/DD/YYYY date runs normalize_wellsfargo,
\* else the file is skipped as unrecognized.
C2_DetectionTotal ==
    [][LoopStep =>
          IF Class(CurrentFrame) = "unrecognized"
          THEN Skipped
          ELSE Ran(NormalizerOf(CurrentFrame))]_vars

\* C3: a file whose first cell matches no detector is skipped with a
\* diagnostic naming it and contributes nothing, and a run with such a file
\* does not stop at it nor at the concatenation that follows the loop.
C3_UnrecognizedNonFatal ==
    [][/\ (LoopStep /\ Class(CurrentFrame) = "unrecognized") => Skipped
       /\ (pc = "loop" /\ nread = Len(files) /\ stdout # <<>>) =>
              pc' # "crashed"]_vars

\* The frames the loop appends for the first n files.
RECURSIVE ExpectedFrames(_)
ExpectedFrames(n) ==
    IF n = 0 THEN <<>>
    ELSE IF LoopBody(read_csv(files[n].table)).do = "append"
         THEN Append(ExpectedFrames(n - 1), LoopBody(read_csv(files[n].table)).df)
    ELSE ExpectedFrames(n - 1)

\* The data rows of the first n files that were appended.
RECURSIVE ExpectedRowCount(_)
ExpectedRowCount(n) ==
    IF n = 0 THEN 0
    ELSE IF LoopBody(read_csv(files[n].table)).do # "append"
         THEN ExpectedRowCount(n - 1)
    ELSE IF Class(read_csv(files[n].table)) = "C"
         THEN ExpectedRowCount(n - 1) + Len(files[n].table)
    ELSE ExpectedRowCount(n - 1) + Len(files[n].table) - 1

Records(df) ==
    [r \in 1..Len(df.data) |->
        [Date |-> Col(df, Str(DateStr))[r],
         Amount |-> Col(df, Str(AmountStr))[r],
         Description |-> Col(df, Str(DescriptionStr))[r]]]

RECURSIVE FlatRecords(_)
FlatRecords(frames) ==
    IF frames = <<>> THEN <<>>
    ELSE Records(Head(frames)) \o FlatRecords(Tail(frames))

\* C4: after any prefix of the file list the accumulator holds the frames
\* of the recognized files of that prefix in order, and the concatenated
\* and the written table hold their rows in file order and row order, one
\* per data row.
C4_ConcatenationOrder ==
    /\ transaction_dataframes = ExpectedFrames(nread)
    /\ pc \in {"categorize", "to_csv", "done"} =>
           Records(result) = FlatRecords(transaction_dataframes)
    /\ out_csv.writes > 0 =>
           /\ nread = Len(files)
           /\ Records(out_csv.df) = FlatRecords(ExpectedFrames(Len(files)))
           /\ Len(out_csv.df.data) = ExpectedRowCount(Len(files))

\* A Format B file, then a Format A file, both written.
C4_Witness ==
    /\ pc = "done"
    /\ files = <<DiscoverFile, CitiFile>>
    /\ Len(out_csv.df.data) = 4
    /\ Records(out_csv.df)[1].Description = Str(DepotDesc)
    /\ Records(out_csv.df)[3].Description = Str(PetDesc)

OutputOrder ==
    <<Str(DateStr), Str(AmountStr), Str(DescriptionStr), Str(CategoryStr)>>

\* C5: every normalized frame has the columns Date, Amount, Description in
\* that order, and the written table has Date, Amount, Description,
\* Category in that order.
C5_ColumnOrder ==
    /\ \A k \in 1..Len(transaction_dataframes) :
           transaction_dataframes[k].columns = CitiOrder
    /\ out_csv.writes > 0 => out_csv.df.columns = OutputOrder

ConfigError ==
    \/ ~rule_file.exists
    \/ \E k \in 1..Len(rule_file.rules) : ~Compiles(rule_file.rules[k].regex)

\* C8: with a missing rule file or a malformed pattern in it, no input file
\* is read and the output is not written.
C8_ConfigErrorFirst ==
    ConfigError => nread = 0 /\ out_csv.writes = 0

\* C9: a file of a recognized format whose normalizer fails is skipped with
\* a diagnostic and the loop goes on.
C9_MalformedSkipped ==
    [][(/\ LoopStep
        /\ Class(CurrentFrame) # "unrecognized"
        /\ NormalizerOf(CurrentFrame).err # "none") => Skipped]_vars

HasCategory(df) ==
    /\ HasCol(df, Str(CategoryStr))
    /\ \A r \in 1..Len(df.data) : Col(df, Str(CategoryStr))[r].t = "str"

\* C10: out.csv is written at most once, only by a run that has passed
\* over every file, concatenated the frames and categorized every record;
\* a run that ends in an exception leaves out.csv as it was.
C10_WriteOnceAtEnd ==
    /\ out_csv.writes <= 1
    /\ out_csv.writes = 0 => out_csv.df = OldOutput
    /\ pc = "crashed" => out_csv.writes = 0
    /\ out_csv.writes = 1 =>
           /\ pc = "done"
           /\ error = "none"
           /\ nread = Len(files)
           /\ out_csv.df = result
           /\ Records(result) = FlatRecords(transaction_dataframes)
           /\ HasCategory(out_csv.df)

\* A run that skipped one file and wrote the other's rows.
C10_Witness ==
    /\ pc = "done"
    /\ out_csv.writes = 1
    /\ Len(stdout) = 1
    /\ Len(out_csv.df.data) = 2

=============================================================================
